---- MODULE Spec2Model ----
(***************************************************************************)
(* Model of the tool-dispatch and agent-orchestration code of the          *)
(* 2025-naf-autocon4 examples: the memoised name resolver                  *)
(* (lookup_player_id under functools.lru_cache), the agent loop            *)
(* (run_agent) and the schema generator (openapi_to_tools).                *)
(***************************************************************************)
EXTENDS Integers, Sequences, FiniteSets, TLC

(***************************************************************************)
(* Bounds of the model.                                                    *)
(***************************************************************************)
\* concurrent sessions (threads) calling lookup_player_id
NumSessions == 2
\* distinct query strings the sessions may ask for; query strings are opaque
\* to the code, so they are modelled as the numbers 1..NumHot
NumHot == 2
\* tool turns of one run_agent invocation whose messages are recorded
MaxTurns == 2
\* keys (operations and others) of an interface description, over all paths
MaxKeys == 3

(***************************************************************************)
(* Program constants.                                                      *)
(***************************************************************************)
\* @lru_cache(maxsize=128)
maxsize == 128
\* a player id the search service returns (Connor McDavid)
BaseId == 8478402

Sessions == 1..NumSessions
HotNames == 1..NumHot
\* query strings resolved earlier in the process' life: Filler(1), Filler(2), ...
Filler(i) == NumHot + i
Impls == {"ex02", "ex04"}

(***************************************************************************)
(* Python values.  A value is None, an int or a str of decimal digits;     *)
(* [t |-> "str", v |-> n] is the string str(n).                            *)
(***************************************************************************)
None == [t |-> "none", v |-> 0]
IntVal(n) == [t |-> "int", v |-> n]
StrVal(n) == [t |-> "str", v |-> n]
\* the empty string ""
EmptyStr == [t |-> "empty_str", v |-> 0]
\* ghost marker: "no value recorded"
NoVal == [t |-> "noval", v |-> 0]

\* Python truthiness: None and 0 are falsy; a string of digits is non-empty
Truthy(x) == CASE x.t = "none" -> FALSE
               [] x.t = "int" -> x.v # 0
               [] x.t = "str" -> TRUE
               [] OTHER -> FALSE

\* int(x) for an int or a string of digits
PyInt(x) == IntVal(x.v)

(***************************************************************************)
(* The search service.  For query n it answers a list whose first match    *)
(* carries playerId (a JSON string or a JSON number), an empty list, an    *)
(* error status (raise_for_status raises) or nothing within the timeout.   *)
(***************************************************************************)
\* identifiers the service may return for query n
IdsOf(n) == {0, BaseId + n}

\* JSON types the service uses for identifier id: the real service sends
\* strings; numbers are what the resolver must tolerate as well
IdTypes(id) == IF id = 0 THEN {"num"} ELSE {"str", "num"}

Match(ty, id) == [kind |-> "match", idtype |-> ty, id |-> id]
EmptyList == [kind |-> "empty", idtype |-> "none", id |-> 0]
HttpError == [kind |-> "http_error", idtype |-> "none", id |-> 0]
Timeout == [kind |-> "timeout", idtype |-> "none", id |-> 0]
\* marker: no search request was made
NoOutcome == [kind |-> "no_request", idtype |-> "none", id |-> 0]

SearchOutcomes(n) ==
  UNION {{Match(ty, id) : ty \in IdTypes(id)} : id \in IdsOf(n)}
    \cup {EmptyList, HttpError, Timeout}

\* data[0].get("playerId")
PlayerIdField(o) ==
  IF o.idtype = "str" THEN StrVal(o.id)
  ELSE IF o.idtype = "empty_str" THEN EmptyStr
  ELSE IntVal(o.id)

\* body of lookup_player_id in ex02_function_calling.py
LookupBody02(o) ==
  CASE o.kind = "match" -> PlayerIdField(o)
    [] o.kind = "empty" -> None
    [] OTHER -> None   \* except Exception: return None

\* body of lookup_player_id in ex04_mcp_server.py
LookupBody04(o) ==
  CASE o.kind = "match" ->
         IF Truthy(PlayerIdField(o)) THEN PyInt(PlayerIdField(o)) ELSE None
    [] o.kind = "empty" -> None
    [] OTHER -> None   \* except Exception: return None

LookupBody(im, o) == IF im = "ex02" THEN LookupBody02(o) ELSE LookupBody04(o)

(***************************************************************************)
(* functools.lru_cache(maxsize): a dict and a recency list.  order lists   *)
(* the keys, least recently used first; vals holds the stored value of     *)
(* each name that can be asked for again (NoVal: not in the dict).  The    *)
(* values stored under the filler keys are never read, so only their keys  *)
(* are kept.                                                               *)
(***************************************************************************)
EmptyCache == [order |-> <<>>, vals |-> [n \in HotNames |-> NoVal]]

\* key in cache (the dict lookup)
CacheHas(c, k) == c.vals[k] # NoVal

CacheIndex(c, k) == CHOOSE i \in 1..Len(c.order) : c.order[i] = k

CacheGet(c, k) == c.vals[k]

CacheLen(c) == Len(c.order)

RemoveAt(q, i) == SubSeq(q, 1, i - 1) \o SubSeq(q, i + 1, Len(q))

\* a hit that leaves the recency list as it is (first in, first out)
CacheTouchNoMove(c, k) == c

\* a hit moves the key to the most-recently-used end
CacheTouch(c, k) == [c EXCEPT !.order = Append(RemoveAt(@, CacheIndex(c, k)), k)]

\* the dict without key k
DictDel(vals, k) == [n \in HotNames |-> IF n = k THEN NoVal ELSE vals[n]]

\* the dict and the list with k -> x added as the most recent entry
Link(c, k, x) ==
  [order |-> Append(c.order, k), vals |-> [c.vals EXCEPT ![k] = x]]

\* the least recently used entry leaves
EvictOldest(c) ==
  [order |-> Tail(c.order), vals |-> DictDel(c.vals, Head(c.order))]

\* the store after the wrapped function returned, whatever it returned:
\* nothing when the key was added meanwhile, else the least recently used
\* entry makes room when the cache is full
CacheStore(c, k, x) ==
  IF CacheHas(c, k) THEN c
  ELSE IF CacheLen(c) >= maxsize THEN Link(EvictOldest(c), k, x)
  ELSE Link(c, k, x)

(***************************************************************************)
(* run_agent (ex02_function_calling.py): the model's responses.            *)
(***************************************************************************)
\* tool_use.input: {"player_name": n}, or a mapping get_player_stats does
\* not accept (a wrong or missing keyword)
NameArgs(n) == [kind |-> "player_name", n |-> n]
BadArgs == [kind |-> "bad_keywords", n |-> 0]
NoArgs == [kind |-> "none", n |-> 0]

TextBlock ==
  [type |-> "text", text |-> "some text", id |-> 0, name |-> "", input |-> NoArgs]
ToolUse(id, name, input) ==
  [type |-> "tool_use", text |-> "", id |-> id, name |-> name, input |-> input]

\* what a model may ask for: the registered tool with good or bad arguments,
\* or a tool that is not registered
GoodRequest == [name |-> "get_player_stats", input |-> NameArgs(1)]
BadRequest == [name |-> "get_player_stats", input |-> BadArgs]
UnknownRequest == [name |-> "get_weather", input |-> NameArgs(1)]
Requests == {GoodRequest, BadRequest, UnknownRequest}

\* response.content of the t-th tool-use response: one tool_use block, a text
\* block before it, or two tool_use blocks; block ids are unique
ToolUseContents(t) ==
  {<<ToolUse(2 * t - 1, q.name, q.input)>> : q \in Requests}
    \cup {<<TextBlock, ToolUse(2 * t - 1, UnknownRequest.name, UnknownRequest.input)>>}
    \cup {<<ToolUse(2 * t - 1, GoodRequest.name, GoodRequest.input),
            ToolUse(2 * t, UnknownRequest.name, UnknownRequest.input)>>,
          <<ToolUse(2 * t - 1, UnknownRequest.name, UnknownRequest.input),
            ToolUse(2 * t, GoodRequest.name, GoodRequest.input)>>}

Responses(t) ==
  {[stop_reason |-> "tool_use", content |-> c] : c \in ToolUseContents(t)}
    \cup {[stop_reason |-> "end_turn", content |-> <<TextBlock>>],
          [stop_reason |-> "max_tokens", content |-> <<TextBlock>>]}

\* client.messages.create raised (no response)
ApiError == [stop_reason |-> "api_error", content |-> <<>>]
NoResponse == [stop_reason |-> "none", content |-> <<>>]

\* next(block for block in response.content if block.type == "tool_use")
LastToolUse(content) ==
  content[CHOOSE i \in 1..Len(content) :
            /\ content[i].type = "tool_use"
            /\ \A j \in (i + 1)..Len(content) : content[j].type # "tool_use"]

FirstToolUse(content) ==
  content[CHOOSE i \in 1..Len(content) :
            /\ content[i].type = "tool_use"
            /\ \A j \in 1..(i - 1) : content[j].type # "tool_use"]

(***************************************************************************)
(* get_player_stats (ex02): strings are kept as their parts.               *)
(***************************************************************************)
\* str(e) of the exceptions a tool call raises
NotFoundMsg(n) == [kind |-> "Player '{player_name}' not found", n |-> n, cause |-> ""]
FetchErrorMsg(pid, cause) ==
  [kind |-> "Error fetching stats for player ID {player_id}: {e}", n |-> pid,
   cause |-> cause]
TypeErrorMsg == [kind |-> "get_player_stats() got an unexpected keyword argument",
                 n |-> 0, cause |-> ""]
\* the returned dict of the player with identifier pid
StatsOf(pid) == [kind |-> "stats", n |-> pid, cause |-> ""]
NoMsg == [kind |-> "", n |-> 0, cause |-> ""]

\* how the data-service request ends
FetchOutcomes == {"ok", "http_error", "timeout"}

\* get_player_stats(**input) on cache c, the search request (made on a cache
\* miss) ending as so and the data-service request as fo:
\* raised, whether it raised; value, the dict or the exception's message
GetPlayerStats(c, input, so, fo) ==
  IF input.kind # "player_name"
  THEN [cache |-> c, raised |-> TRUE, value |-> TypeErrorMsg]
  ELSE LET n == input.n
           hit == CacheHas(c, n)
           player_id == IF hit THEN CacheGet(c, n) ELSE LookupBody02(so)
           c1 == IF hit THEN CacheTouch(c, n) ELSE CacheStore(c, n, player_id)
       IN IF ~Truthy(player_id)
          THEN [cache |-> c1, raised |-> TRUE, value |-> NotFoundMsg(n)]
          ELSE IF fo = "ok"
          THEN [cache |-> c1, raised |-> FALSE, value |-> StatsOf(player_id.v)]
          ELSE [cache |-> c1, raised |-> TRUE,
                value |-> FetchErrorMsg(player_id.v, fo)]

(***************************************************************************)
(* run_agent: the tool dispatch inside try/except.                         *)
(***************************************************************************)
\* result_content: a prefix, then a tool name, a message or a dumped dict
JsonDump(v) == [prefix |-> "", tool |-> "", body |-> v]
ErrorContent(m) == [prefix |-> "Error: ", tool |-> "", body |-> m]
UnknownTool(name) == [prefix |-> "Unknown tool: ", tool |-> name, body |-> NoMsg]
NoContent == [prefix |-> "", tool |-> "", body |-> NoMsg]

\* a dispatch without the except clause: the tool's exception leaves run_agent
DispatchNoExcept(c, tu, so, fo) ==
  IF tu.name = "get_player_stats"
  THEN LET r == GetPlayerStats(c, tu.input, so, fo)
       IN [cache |-> r.cache, called |-> TRUE, escapes |-> r.raised,
           content |-> JsonDump(r.value), is_error |-> FALSE]
  ELSE [cache |-> c, called |-> FALSE, escapes |-> FALSE,
        content |-> UnknownTool(tu.name), is_error |-> TRUE]

\* a dispatch that indexes a registry: an unknown name raises KeyError inside
\* the try and is reported like any other exception
DispatchByRegistry(c, tu, so, fo) ==
  IF tu.name = "get_player_stats"
  THEN LET r == GetPlayerStats(c, tu.input, so, fo)
       IN IF r.raised
          THEN [cache |-> r.cache, called |-> TRUE, escapes |-> FALSE,
                content |-> ErrorContent(r.value), is_error |-> TRUE]
          ELSE [cache |-> r.cache, called |-> TRUE, escapes |-> FALSE,
                content |-> JsonDump(r.value), is_error |-> FALSE]
  ELSE [cache |-> c, called |-> FALSE, escapes |-> FALSE,
        content |-> ErrorContent([kind |-> "KeyError", n |-> 0, cause |-> tu.name]),
        is_error |-> TRUE]

\* the try/except of run_agent: called, whether a tool function ran; escapes,
\* whether an exception leaves run_agent
Dispatch(c, tu, so, fo) ==
  IF tu.name = "get_player_stats"
  THEN LET r == GetPlayerStats(c, tu.input, so, fo)
       IN IF r.raised
          THEN [cache |-> r.cache, called |-> TRUE, escapes |-> FALSE,
                content |-> ErrorContent(r.value), is_error |-> TRUE]
          ELSE [cache |-> r.cache, called |-> TRUE, escapes |-> FALSE,
                content |-> JsonDump(r.value), is_error |-> FALSE]
  ELSE [cache |-> c, called |-> FALSE, escapes |-> FALSE,
        content |-> UnknownTool(tu.name), is_error |-> TRUE]

\* the turns of the conversation
UserTurn ==
  [role |-> "user", kind |-> "text", content |-> <<>>, tool_use_id |-> 0,
   result |-> NoContent, is_error |-> FALSE]
AssistantTurn(content) ==
  [role |-> "assistant", kind |-> "content", content |-> content,
   tool_use_id |-> 0, result |-> NoContent, is_error |-> FALSE]
ToolResultTurn(id, result, is_error) ==
  [role |-> "user", kind |-> "tool_result", content |-> <<>>,
   tool_use_id |-> id, result |-> result, is_error |-> is_error]

\* an append that puts the tool result before the assistant's turn
AppendedResultFirst(msgs, content, tu, d) ==
  msgs \o <<ToolResultTurn(tu.id, d.content, d.is_error), AssistantTurn(content)>>

\* the two messages.append calls after a tool ran
Appended(msgs, content, tu, d) ==
  msgs \o <<AssistantTurn(content), ToolResultTurn(tu.id, d.content, d.is_error)>>

\* a loop that gives up after MaxTurns tool turns
NextIterationCapped(t) == IF t >= MaxTurns THEN "exceeded" ELSE "awaiting_model"

\* while True: after a tool turn the loop calls the model again, whatever
\* the number t of tool turns so far
NextIteration(t) == "awaiting_model"

(***************************************************************************)
(* openapi_to_tools (ex03_openapi_tools.py).  Strings that the code builds *)
(* are sequences of characters.  A document is what yaml.safe_load gives:  *)
(* paths, an ordered mapping path -> (key -> operation), as a sequence of  *)
(* [path, items], items a sequence of [key, op].                           *)
(***************************************************************************)
Chars ==
  [get |-> <<"g", "e", "t">>, post |-> <<"p", "o", "s", "t">>,
   put |-> <<"p", "u", "t">>, delete |-> <<"d", "e", "l", "e", "t", "e">>,
   patch |-> <<"p", "a", "t", "c", "h">>, head |-> <<"h", "e", "a", "d">>,
   parameters |-> <<"p", "a", "r", "a", "m", "e", "t", "e", "r", "s">>]

\* keys a path item may carry: the HTTP methods and the path-level "parameters"
KeyPool == {"get", "post", "put", "delete", "patch", "head", "parameters"}

\* "/a/b" and "/a_b"
PathPool == {<<"/", "a", "/", "b">>, <<"/", "a", "_", "b">>}

\* how the operations of a document declare operationId: not at all, each its
\* own, or all the same one
IdModes == {"absent", "own", "same"}

Absent == <<"<absent>">>

\* the operation under key k of path p: get has a description and a required
\* string parameter, post a summary and an optional parameter without schema,
\* delete a required integer parameter and no text, the others nothing
Param(name, ty, req) == [name |-> name, type |-> ty, required |-> req]

OperationOf(p, k, mode) ==
  [operationId |->
     CASE mode = "absent" -> Absent
       [] mode = "own" -> <<"o", "p">> \o Chars[k] \o p
       [] OTHER -> <<"o", "p">>,
   description |-> IF k = "get" THEN "a description" ELSE "<absent>",
   summary |-> IF k \in {"get", "post"} THEN "a summary" ELSE "<absent>",
   parameters |->
     CASE k = "get" -> <<Param("q", "string", TRUE)>>
       [] k = "post" -> <<Param("limit", "<absent>", FALSE)>>
       [] k = "delete" -> <<Param("playerId", "integer", TRUE)>>
       [] OTHER -> <<>>]

\* sequences without repetition over S, of length at most n
RECURSIVE DistinctSeqs(_, _)
DistinctSeqs(S, n) ==
  IF n = 0 THEN {<<>>}
  ELSE {<<>>} \cup UNION {{<<x>> \o q : q \in DistinctSeqs(S \ {x}, n - 1)} : x \in S}

PathItem(p, keys, mode) ==
  [path |-> p,
   items |-> [j \in 1..Len(keys) |-> [key |-> keys[j], op |-> OperationOf(p, keys[j], mode)]]]

\* the key sequences of a path item, and the path sequences of a document
KeySeqs == DistinctSeqs(KeyPool, MaxKeys)
PathSeqs == DistinctSeqs(PathPool, 2)

\* the document with paths ps, keys ks[i] under ps[i]
Document(ps, ks, mode) == [i \in 1..Len(ps) |-> PathItem(ps[i], ks[i], mode)]

\* path.replace('/', '_')
ReplaceSlash(p) == [i \in 1..Len(p) |-> IF p[i] = "/" THEN "_" ELSE p[i]]

\* an allow-list that takes head for an operation, too
AllowListWithHead == {"get", "post", "put", "delete", "patch", "head"}

\* ["get", "post", "put", "delete", "patch"]
AllowList == {"get", "post", "put", "delete", "patch"}

\* the properties and the required list built from the parameters
RECURSIVE Properties(_)
Properties(params) ==
  IF params = <<>> THEN <<>>
  ELSE <<[name |-> params[1].name,
          type |-> IF params[1].type = "<absent>" THEN "string" ELSE params[1].type]>>
         \o Properties(Tail(params))

RECURSIVE Required(_)
Required(params) ==
  IF params = <<>> THEN <<>>
  ELSE (IF params[1].required THEN <<params[1].name>> ELSE <<>>)
         \o Required(Tail(params))

\* the tool definition of one operation
ToolOf(path, method, operation) ==
  [name |-> IF operation.operationId # Absent THEN operation.operationId
            ELSE Chars[method] \o <<"_">> \o ReplaceSlash(path),
   description |-> IF operation.description # "<absent>" THEN operation.description
                   ELSE IF operation.summary # "<absent>" THEN operation.summary
                   ELSE "",
   properties |-> Properties(operation.parameters),
   required |-> Required(operation.parameters)]

\* for method, operation in path_item.items()
RECURSIVE ToolsOfItems(_, _)
ToolsOfItems(path, items) ==
  IF items = <<>> THEN <<>>
  ELSE (IF items[1].key \notin AllowList THEN <<>>
        ELSE <<ToolOf(path, items[1].key, items[1].op)>>)
         \o ToolsOfItems(path, Tail(items))

\* for path, path_item in paths.items()
RECURSIVE ToolsOfPaths(_)
ToolsOfPaths(paths) ==
  IF paths = <<>> THEN <<>>
  ELSE ToolsOfItems(paths[1].path, paths[1].items) \o ToolsOfPaths(Tail(paths))

VARIABLES
  impl,      \* which module runs: "ex02" or "ex04"
  cache,     \* lookup_player_id's lru_cache
  spc,       \* per session: "idle" or "waiting" (search request in flight)
  sname,     \* per session: the player_name of its call in flight
  last,      \* the latest call that returned: who, what, how
  resolved,  \* ghost: per name, the identifier its latest stored resolution gave
  since,     \* ghost: per name, other keys stored or hit since its last store/hit
  apc,       \* run_agent: "not_started", "awaiting_model", "got_response",
             \* "done" (returned) or "raised" (left by an exception)
  messages,  \* run_agent's messages list (its first MaxTurns tool turns)
  response,  \* the response of the latest client.messages.create
  answer,    \* what run_agent returned
  turns,     \* tool turns executed; MaxTurns + 1 stands for "more than MaxTurns"
  asked,     \* ghost: the content of each tool-use response, in order
  texec,     \* ghost: what the latest tool execution did
  doc,       \* the interface description given to openapi_to_tools
  calls,     \* how many times openapi_to_tools was applied to it
  tools,     \* what each application returned
  gpc,       \* get_player_stats: "idle", "searching" (search request in
             \* flight), "fetching" (data-service request in flight),
             \* "returned" or "raised"
  gname,     \* the player_name of the get_player_stats call
  gid,       \* player_id: what lookup_player_id returned to the call
  fetches,   \* ghost: data-service requests issued by the call
  gresult,   \* the returned dict or the message of the raised ValueError
  stats_a,   \* an entity record, as get_player_stats returns it
  stats_b,   \* another one
  cmp_ab,    \* what the comparison of (stats_a, stats_b) returned
  cmp_ba,    \* what the comparison of (stats_b, stats_a) returned
  compared   \* which of the two comparisons were made

cvars == <<impl, cache, spc, sname, last, resolved, since>>
avars == <<apc, messages, response, answer, turns, asked, texec>>
gvars == <<doc, calls, tools>>
svars == <<gpc, gname, gid, fetches, gresult>>
pvars == <<stats_a, stats_b, cmp_ab, cmp_ba, compared>>
vars == <<impl, cache, spc, sname, last, resolved, since,
          apc, messages, response, answer, turns, asked, texec,
          doc, calls, tools,
          gpc, gname, gid, fetches, gresult,
          stats_a, stats_b, cmp_ab, cmp_ba, compared>>

GenIdle ==
  /\ doc = <<>>
  /\ calls = 0
  /\ tools = <<>>

StatsIdle ==
  /\ gpc = "idle"
  /\ gname = 0
  /\ gid = NoVal
  /\ fetches = 0
  /\ gresult = NoMsg

CompareIdle ==
  /\ stats_a = <<>>
  /\ stats_b = <<>>
  /\ cmp_ab = <<>>
  /\ cmp_ba = <<>>
  /\ compared = {}

NoExec == [called |-> FALSE, raised |-> FALSE, value |-> NoMsg]

AgentIdle ==
  /\ apc = "not_started"
  /\ messages = <<>>
  /\ response = NoResponse
  /\ answer = ""
  /\ turns = 0
  /\ asked = <<>>
  /\ texec = NoExec

\* last: ret, what the call returned (NoVal while its request is in flight);
\* req, whether it sent a search request; out, how that request ended;
\* known and promised, the ghosts resolved and Promised at the call
NoCall == [ret |-> NoVal, req |-> FALSE, out |-> NoOutcome,
           known |-> NoVal, promised |-> NoVal]

\* ghost: the other keys stored or hit since a name's entry was last stored or
\* hit: the names among them, and how many earlier (filler) keys
NoneSince == [names |-> {}, fillers |-> 0]
CountSince(sn) == Cardinality(sn.names) + sn.fillers

\* ghost: what the cache owes a call for n made now: the identifier of n's
\* stored resolution while fewer than maxsize other keys were stored or hit
\* since n's entry was last stored or hit
Promised(n) ==
  IF resolved[n] # NoVal /\ CountSince(since[n]) < maxsize
  THEN resolved[n] ELSE NoVal

\* ghost bookkeeping: key k was stored or hit
Bump(sn, k) ==
  [n \in HotNames |->
     IF n = k THEN NoneSince ELSE [sn[n] EXCEPT !.names = @ \cup {k}]]

\* a cache of a process that resolved h (getting x) and then k other names
Warm(h, x, k) ==
  [order |-> <<h>> \o [i \in 1..k |-> Filler(i)],
   vals |-> [n \in HotNames |-> IF n = h THEN x ELSE NoVal]]

WarmSizes == {maxsize - 1}

InitCache ==
  /\ AgentIdle
  /\ GenIdle
  /\ StatsIdle
  /\ CompareIdle
  /\ impl \in Impls
  /\ spc = [s \in Sessions |-> "idle"]
  /\ sname = [s \in Sessions |-> 0]
  /\ last = NoCall
  /\ \/ /\ cache = EmptyCache
        /\ resolved = [n \in HotNames |-> NoVal]
        /\ since = [n \in HotNames |-> NoneSince]
     \/ \E k \in WarmSizes :
          LET x == LookupBody(impl, Match("str", BaseId + 1))
          IN /\ cache = Warm(1, x, k)
             /\ resolved = [n \in HotNames |-> IF n = 1 THEN x ELSE NoVal]
             /\ since = [n \in HotNames |->
                  IF n = 1 THEN [names |-> {}, fillers |-> k] ELSE NoneSince]

\* lookup_player_id(player_name) is called: the cache is consulted; a hit
\* returns at once, a miss sends the search request
LookupCall(s, n) ==
  /\ spc[s] = "idle"
  /\ IF CacheHas(cache, n)
     THEN /\ cache' = CacheTouch(cache, n)
          /\ last' = [ret |-> CacheGet(cache, n), req |-> FALSE,
                      out |-> NoOutcome,
                      known |-> resolved[n], promised |-> Promised(n)]
          /\ since' = Bump(since, n)
          /\ UNCHANGED <<spc, sname>>
     ELSE /\ spc' = [spc EXCEPT ![s] = "waiting"]
          /\ sname' = [sname EXCEPT ![s] = n]
          /\ last' = [ret |-> NoVal, req |-> TRUE, out |-> NoOutcome,
                      known |-> resolved[n], promised |-> Promised(n)]
          /\ UNCHANGED <<cache, since>>
  /\ UNCHANGED <<impl, resolved>>
  /\ UNCHANGED avars
  /\ UNCHANGED gvars
  /\ UNCHANGED svars
  /\ UNCHANGED pvars

\* the search request of session s ends with outcome o: the body finishes
\* and lru_cache stores what it returned
LookupReturn(s, o) ==
  /\ spc[s] = "waiting"
  /\ o \in SearchOutcomes(sname[s])
  /\ LET n == sname[s]
         x == LookupBody(impl, o)
         stored == ~CacheHas(cache, n) /\ CacheHas(CacheStore(cache, n, x), n)
     IN /\ cache' = CacheStore(cache, n, x)
        /\ last' = [ret |-> x, req |-> TRUE, out |-> o,
                    known |-> NoVal, promised |-> NoVal]
        /\ resolved' = IF stored
                       THEN [resolved EXCEPT ![n] = IF x = None THEN NoVal ELSE x]
                       ELSE resolved
        /\ since' = IF stored THEN Bump(since, n) ELSE since
  /\ spc' = [spc EXCEPT ![s] = "idle"]
  /\ sname' = [sname EXCEPT ![s] = 0]
  /\ UNCHANGED impl
  /\ UNCHANGED avars
  /\ UNCHANGED gvars
  /\ UNCHANGED svars
  /\ UNCHANGED pvars

NextCache ==
  \/ \E s \in Sessions, n \in HotNames : LookupCall(s, n)
  \/ \E s \in Sessions, o \in UNION {SearchOutcomes(n) : n \in HotNames} :
       LookupReturn(s, o)

Spec == InitCache /\ [][NextCache]_vars

(***************************************************************************)
(* run_agent: one invocation, in the process of ex02_function_calling.py.  *)
(***************************************************************************)
InitAgent ==
  /\ GenIdle
  /\ StatsIdle
  /\ CompareIdle
  /\ impl = "ex02"
  /\ cache \in {EmptyCache, Link(EmptyCache, 1, StrVal(BaseId + 1))}
  /\ spc = [s \in Sessions |-> "idle"]
  /\ sname = [s \in Sessions |-> 0]
  /\ last = NoCall
  /\ resolved = [n \in HotNames |-> NoVal]
  /\ since = [n \in HotNames |-> NoneSince]
  /\ apc = "awaiting_model"
  /\ messages = <<UserTurn>>
  /\ response = NoResponse
  /\ answer = ""
  /\ turns = 0
  /\ asked = <<>>
  /\ texec = NoExec

\* the number of the coming tool-use response
TurnNo == IF turns < MaxTurns THEN turns + 1 ELSE MaxTurns + 1

\* client.messages.create(...) returns r
AgentModelResponds(r) ==
  /\ apc = "awaiting_model"
  /\ r \in Responses(TurnNo)
  /\ response' = r
  /\ apc' = "got_response"
  /\ asked' = IF r.stop_reason = "tool_use" /\ turns < MaxTurns
              THEN Append(asked, r.content) ELSE asked
  /\ UNCHANGED <<messages, answer, turns, texec>>
  /\ UNCHANGED cvars
  /\ UNCHANGED gvars
  /\ UNCHANGED svars
  /\ UNCHANGED pvars

\* client.messages.create(...) raises: the exception leaves run_agent
AgentModelFails ==
  /\ apc = "awaiting_model"
  /\ response' = ApiError
  /\ apc' = "raised"
  /\ UNCHANGED <<messages, answer, turns, asked, texec>>
  /\ UNCHANGED cvars
  /\ UNCHANGED gvars
  /\ UNCHANGED svars
  /\ UNCHANGED pvars

\* the tool_use branch of the loop body: the first tool_use block is
\* dispatched and both turns are appended
AgentExecuteTool(so, fo) ==
  /\ apc = "got_response"
  /\ response.stop_reason = "tool_use"
  /\ LET tool_use == FirstToolUse(response.content)
         d == Dispatch(cache, tool_use, so, fo)
         r == GetPlayerStats(cache, tool_use.input, so, fo)
     IN /\ cache' = d.cache
        /\ texec' = IF d.called
                    THEN [called |-> TRUE, raised |-> r.raised, value |-> r.value]
                    ELSE NoExec
        /\ IF d.escapes
           THEN /\ apc' = "raised"
                /\ UNCHANGED <<messages, turns>>
           ELSE /\ apc' = NextIteration(turns + 1)
                /\ messages' = IF turns < MaxTurns
                               THEN Appended(messages, response.content, tool_use, d)
                               ELSE messages
                /\ turns' = IF turns < MaxTurns THEN turns + 1 ELSE MaxTurns + 1
  /\ UNCHANGED <<response, answer, asked>>
  /\ UNCHANGED <<impl, spc, sname, last, resolved, since>>
  /\ UNCHANGED gvars
  /\ UNCHANGED svars
  /\ UNCHANGED pvars

\* the else branch: return response.content[0].text
AgentReturn ==
  /\ apc = "got_response"
  /\ response.stop_reason # "tool_use"
  /\ answer' = response.content[1].text
  /\ apc' = "done"
  /\ UNCHANGED <<messages, response, turns, asked, texec>>
  /\ UNCHANGED cvars
  /\ UNCHANGED gvars
  /\ UNCHANGED svars
  /\ UNCHANGED pvars

NextAgent ==
  \/ \E r \in Responses(TurnNo) : AgentModelResponds(r)
  \/ AgentModelFails
  \/ \E so \in SearchOutcomes(1), fo \in FetchOutcomes : AgentExecuteTool(so, fo)
  \/ AgentReturn

AgentSpec == InitAgent /\ [][NextAgent]_vars

\* the loop body runs whenever it can: the model call is a blocking request
\* that ends, and the steps between two model calls are straight-line code
AgentFairSpec == InitAgent /\ [][NextAgent]_vars /\ WF_vars(NextAgent)

(***************************************************************************)
(* Shape of the resolver's state.                                          *)
(***************************************************************************)
CacheShapeOK ==
  /\ \A i, j \in 1..CacheLen(cache) :
       cache.order[i] = cache.order[j] => i = j
  /\ \A n \in HotNames :
       CacheHas(cache, n) <=> \E i \in 1..CacheLen(cache) : cache.order[i] = n
  /\ CacheLen(cache) <= maxsize

\* C1: a query whose resolution failed (lookup_player_id returned None) has
\* no entry in the cache afterwards: the cache never answers a stored
\* "not found"
C1_FailedNotCached ==
  /\ \A n \in HotNames : CacheGet(cache, n) # None
  /\ (~last.req) => last.ret # None

\* C2 as claimed: a call for a name whose resolution succeeded returns that
\* identifier from the cache and sends no search request, whatever was
\* resolved in between
C2_AlwaysFromCache ==
  (last.known # NoVal) => (~last.req /\ last.ret = last.known)

\* C2 as amended: a call for a name whose successful resolution is stored
\* returns that identifier and sends no search request as long as fewer than
\* maxsize other keys were stored or hit since the name's entry was last
\* stored or hit; once maxsize others were, the entry is gone and the call
\* sends a new search request
C2_FromCacheUntilEvicted ==
  /\ (last.promised # NoVal) => (~last.req /\ last.ret = last.promised)
  /\ (last.known # NoVal /\ last.promised = NoVal) => last.req

\* a promised hit in a full cache, after another name was stored
C2_Witness ==
  /\ last.promised # NoVal
  /\ ~last.req
  /\ last.ret = last.promised
  /\ CacheLen(cache) = maxsize
  /\ \E n \in HotNames : CacheHas(cache, n) /\ CacheGet(cache, n) # last.ret

\* C8: whatever the search request's outcome, lookup_player_id returns the
\* first match's identifier as an integer when there is a match, else None
C8_IntOrNone ==
  (last.out # NoOutcome) =>
    last.ret = IF last.out.kind = "match" THEN IntVal(last.out.id) ELSE None

\* C9: under every interleaving the cache has at most one entry per query
\* string, each entry holds an identifier the search service returned for
\* that query, and there are never more than maxsize entries
C9_CacheConsistent ==
  /\ \A i, j \in 1..CacheLen(cache) :
       cache.order[i] = cache.order[j] => i = j
  /\ \A n \in HotNames :
       CacheHas(cache, n) =>
         /\ CacheGet(cache, n).t \in {"int", "str"}
         /\ CacheGet(cache, n).v \in IdsOf(n)
  /\ CacheLen(cache) <= maxsize


(***************************************************************************)
(* openapi_to_tools applied, once and again, to one document.              *)
(***************************************************************************)
MaxCalls == 2

InitGen ==
  /\ AgentIdle
  /\ StatsIdle
  /\ CompareIdle
  /\ impl = "ex02"
  /\ cache = EmptyCache
  /\ spc = [s \in Sessions |-> "idle"]
  /\ sname = [s \in Sessions |-> 0]
  /\ last = NoCall
  /\ resolved = [n \in HotNames |-> NoVal]
  /\ since = [n \in HotNames |-> NoneSince]
  /\ \E ps \in PathSeqs, k1 \in KeySeqs, k2 \in KeySeqs, mode \in IdModes :
       /\ Len(k1) + Len(k2) <= MaxKeys
       /\ Len(ps) < 2 => k2 = <<>>
       /\ Len(ps) < 1 => (k1 = <<>> /\ mode = "absent")
       /\ doc = Document(ps, <<k1, k2>>, mode)
  /\ calls = 0
  /\ tools = <<>>

\* tools = openapi_to_tools(spec_yaml)
Generate ==
  /\ calls < MaxCalls
  /\ calls' = calls + 1
  /\ tools' = Append(tools, ToolsOfPaths(doc))
  /\ UNCHANGED doc
  /\ UNCHANGED cvars
  /\ UNCHANGED avars
  /\ UNCHANGED svars
  /\ UNCHANGED pvars

NextGen == Generate

GenSpec == InitGen /\ [][NextGen]_vars

\* the places <<i, j>> of the operations of the document: key j of path i
\* is one of get, post, put, delete, patch
OperationPlaces ==
  {pl \in (1..Len(doc)) \X (1..MaxKeys) :
     /\ pl[2] <= Len(doc[pl[1]].items)
     /\ doc[pl[1]].items[pl[2]].key \in {"get", "post", "put", "delete", "patch"}}

Before(a, b) == a[1] < b[1] \/ (a[1] = b[1] /\ a[2] < b[2])

\* the rank of an operation among the operations, in document order
Rank(pl) == 1 + Cardinality({q \in OperationPlaces : Before(q, pl)})

\* C10: openapi_to_tools emits exactly one tool per operation whose method
\* is get, post, put, delete or patch and none for any other key, in the
\* order of the document; a second application gives the same sequence
C10_OneToolPerOperationInOrder ==
  /\ \A c \in 1..calls :
       /\ Len(tools[c]) = Cardinality(OperationPlaces)
       /\ \A pl \in OperationPlaces :
            tools[c][Rank(pl)] =
              ToolOf(doc[pl[1]].path, doc[pl[1]].items[pl[2]].key,
                     doc[pl[1]].items[pl[2]].op)
  /\ (calls = 2) => (tools[1] = tools[2])

\* two applications to a document of two paths that has operations and
\* another key
C10_Witness ==
  /\ calls = 2
  /\ Len(doc) = 2
  /\ Len(tools[2]) = 2
  /\ tools[2][1] # tools[2][2]
  /\ \E i \in 1..Len(doc) : \E j \in 1..Len(doc[i].items) :
       doc[i].items[j].key \in {"head", "parameters"}

\* C11: in every tool list returned by openapi_to_tools the tool names are
\* pairwise distinct, whatever the document: also when two operations
\* declare the same operationId, and when operations without operationId
\* get the derived name {method}_{path with "/" replaced by "_"}
C11_NamesDistinct ==
  \A c \in 1..calls :
    \A i \in 1..Len(tools[c]) : \A j \in 1..Len(tools[c]) :
      (i # j) => (tools[c][i].name # tools[c][j].name)

(***************************************************************************)
(* Properties of run_agent.                                                *)
(***************************************************************************)
\* the tool turns whose messages are recorded
Recorded == 1..(IF turns < MaxTurns THEN turns ELSE MaxTurns)

\* the tool-result turn of the i-th tool turn
ResultTurn(i) == messages[2 * i + 1]

\* C3: a failure raised while executing a tool becomes a tool-result turn
\* with is_error = true and content "Error: {message}", appended to the
\* conversation; it never leaves run_agent as an exception, and the loop
\* goes on to the next model call
C3_ToolFailureReported ==
  /\ (apc = "raised") => (response = ApiError)
  /\ (texec.raised /\ turns \in 1..MaxTurns) =>
       /\ Len(messages) = 1 + 2 * turns
       /\ ResultTurn(turns).kind = "tool_result"
       /\ ResultTurn(turns).is_error
       /\ ResultTurn(turns).result = ErrorContent(texec.value)

\* the resolver found no player, the failure is the latest turn and the loop
\* awaits the model again
C3_Witness ==
  /\ apc = "awaiting_model"
  /\ turns = 1
  /\ texec.raised
  /\ texec.value = NotFoundMsg(1)
  /\ ResultTurn(1).is_error
  /\ ResultTurn(1).result = ErrorContent(NotFoundMsg(1))

\* C4: a request for a tool that is not registered never raises: its
\* tool-result turn has is_error = true and content "Unknown tool: " followed
\* by the requested name, no tool function is called, and the loop goes on
C4_UnknownToolReported ==
  /\ \A i \in Recorded :
       (FirstToolUse(asked[i]).name # "get_player_stats") =>
         /\ ResultTurn(i).is_error
         /\ ResultTurn(i).result = UnknownTool(FirstToolUse(asked[i]).name)
  /\ (/\ turns \in 1..MaxTurns
      /\ FirstToolUse(asked[turns]).name # "get_player_stats") =>
       (~texec.called /\ (apc = "raised" => response = ApiError))

\* an unknown tool was requested and answered, and the model is called again
C4_Witness ==
  /\ apc = "awaiting_model"
  /\ turns = 1
  /\ FirstToolUse(asked[1]).name = "get_weather"
  /\ ResultTurn(1).result = UnknownTool("get_weather")
  /\ ~texec.called

\* C5 as claimed: run_agent always ends, with a final answer or with
\* AgentLoopExceededError after a maximum turn count (an exception of the
\* model call counts as an end, too)
C5_AlwaysTerminates == <>(apc \in {"done", "exceeded", "raised"})

\* C5 as amended: run_agent ends only by returning the text of a response
\* whose stop reason is not tool_use or by an exception of the model call;
\* there is no maximum turn count: after a tool turn the loop calls the
\* model again, however many tool turns came before
C5_EndsOnlyOnFinalResponse ==
  /\ apc \in {"awaiting_model", "got_response", "done", "raised"}
  /\ (apc = "done") =>
       (response.stop_reason \notin {"tool_use", "api_error"}
          /\ answer = response.content[1].text)
  /\ (apc = "raised") => (response = ApiError)
  /\ (response.stop_reason = "tool_use") => (apc \in {"got_response", "awaiting_model"})

\* the model is called again after more than MaxTurns tool turns
C5_Witness == apc = "awaiting_model" /\ turns = MaxTurns + 1

\* C6: the conversation is the user turn followed by one (assistant
\* tool-use turn, tool-result turn) pair per executed tool request, in
\* request order: 1 + 2k turns after k requests; the final answer is
\* returned and not appended
C6_ConversationShape ==
  /\ Len(messages) = 1 + 2 * Cardinality(Recorded)
  /\ messages[1] = UserTurn
  /\ \A i \in Recorded :
       /\ messages[2 * i] = AssistantTurn(asked[i])
       /\ ResultTurn(i).role = "user"
       /\ ResultTurn(i).kind = "tool_result"
  /\ (apc = "done") => (answer = "some text")

\* run_agent returned after MaxTurns tool turns
C6_Witness ==
  /\ apc = "done"
  /\ turns = MaxTurns
  /\ Len(messages) = 1 + 2 * MaxTurns
  /\ answer = "some text"

\* the tool_use blocks of a response
ToolUseCount(content) ==
  Cardinality({i \in 1..Len(content) : content[i].type = "tool_use"})

\* C7: for a tool-use response exactly one tool request is executed, the
\* first tool_use block, and exactly one tool-result turn, carrying that
\* block's id, is appended
C7_FirstToolUseOnly ==
  /\ Len(messages) = 1 + 2 * Cardinality(Recorded)
  /\ \A i \in Recorded :
       LET first == asked[i][CHOOSE j \in 1..Len(asked[i]) :
                               /\ asked[i][j].type = "tool_use"
                               /\ \A k \in 1..(j - 1) : asked[i][k].type # "tool_use"]
       IN /\ ResultTurn(i).tool_use_id = first.id
          /\ (first.name = "get_player_stats") <=>
               (ResultTurn(i).result.prefix # "Unknown tool: ")

\* a response with two tool_use blocks was answered with one tool result
C7_Witness ==
  /\ apc = "awaiting_model"
  /\ turns = 1
  /\ ToolUseCount(asked[1]) = 2
  /\ Len(messages) = 3
  /\ ResultTurn(1).tool_use_id = asked[1][1].id

(***************************************************************************)
(* compare_players (ex04_mcp_server.py): the comparison built from the     *)
(* two dicts that get_player_stats returned.  A dict is a function on its  *)
(* keys.  shooting_pct, a float with one decimal, is counted in tenths.    *)
(***************************************************************************)
numeric_fields ==
  <<"games_played", "goals", "assists", "points", "shots", "shooting_pct",
    "power_play_goals", "power_play_points", "shorthanded_goals",
    "shorthanded_points", "game_winning_goals", "ot_goals", "plus_minus",
    "penalty_minutes">>

FieldSet == {numeric_fields[i] : i \in 1..Len(numeric_fields)}

\* how many of the numeric fields (the first ones) vary between records;
\* the others are 0 in every record
NumVarying == 2

\* the values of a numeric field (plus_minus may be negative)
StatValues == {-1, 0, 1}

\* "player_name": first name + " " + last name; two players may share it
PlayerNames == {"Sebastian Aho", "Connor McDavid"}

\* the dicts get_player_stats returns: player_name and the numeric fields
\* (team and position are not read by the comparison)
StatsDict(nm, vs) ==
  ("player_name" :> nm) @@
  [f \in FieldSet |->
     IF \E i \in 1..NumVarying : numeric_fields[i] = f
     THEN vs[CHOOSE i \in 1..NumVarying : numeric_fields[i] = f]
     ELSE 0]

Records ==
  {StatsDict(nm, vs) : nm \in PlayerNames, vs \in [1..NumVarying -> StatValues]}

\* d.get(k, default)
DictGet(d, k, default) == IF k \in DOMAIN d THEN d[k] ELSE default

\* a dict display {k1: v1, ..., kn: vn}: the pairs are inserted from left to
\* right, a later pair with an equal key replaces the value
RECURSIVE DictOf(_)
DictOf(pairs) ==
  IF Len(pairs) = 0 THEN [k \in {} |-> 0]
  ELSE LET n == Len(pairs)
       IN (pairs[n][1] :> pairs[n][2]) @@ DictOf(SubSeq(pairs, 1, n - 1))

\* a leader that gives a tie to the first player
LeaderOnTieFirst(difference, name1, name2) ==
  IF difference >= 0 THEN name1 ELSE name2

\* player1 if difference > 0 else player2 if difference < 0 else "tied"
Leader(difference, name1, name2) ==
  IF difference > 0 THEN name1
  ELSE IF difference < 0 THEN name2
  ELSE "tied"

\* comparison[field]
Entry(player1_stats, player2_stats, field) ==
  LET p1_val == DictGet(player1_stats, field, 0)
      p2_val == DictGet(player2_stats, field, 0)
      difference == p1_val - p2_val
  IN DictOf(<< <<player1_stats["player_name"], p1_val>>,
               <<player2_stats["player_name"], p2_val>>,
               <<"difference", difference>>,
               <<"leader", Leader(difference, player1_stats["player_name"],
                                  player2_stats["player_name"])>> >>)

\* what compare_players returns for the two dicts
ComparePlayers(player1_stats, player2_stats) ==
  [player1 |-> player1_stats,
   player2 |-> player2_stats,
   comparison |-> [f \in FieldSet |-> Entry(player1_stats, player2_stats, f)]]

InitCompare ==
  /\ AgentIdle
  /\ GenIdle
  /\ StatsIdle
  /\ impl = "ex04"
  /\ cache = EmptyCache
  /\ spc = [s \in Sessions |-> "idle"]
  /\ sname = [s \in Sessions |-> 0]
  /\ last = NoCall
  /\ resolved = [n \in HotNames |-> NoVal]
  /\ since = [n \in HotNames |-> NoneSince]
  /\ stats_a \in Records
  /\ stats_b \in Records
  /\ cmp_ab = <<>>
  /\ cmp_ba = <<>>
  /\ compared = {}

\* the comparison of (stats_a, stats_b)
CompareAB ==
  /\ "ab" \notin compared
  /\ cmp_ab' = ComparePlayers(stats_a, stats_b)
  /\ compared' = compared \cup {"ab"}
  /\ UNCHANGED <<stats_a, stats_b, cmp_ba>>
  /\ UNCHANGED <<cvars, avars, gvars, svars>>

\* the comparison of (stats_b, stats_a)
CompareBA ==
  /\ "ba" \notin compared
  /\ cmp_ba' = ComparePlayers(stats_b, stats_a)
  /\ compared' = compared \cup {"ba"}
  /\ UNCHANGED <<stats_a, stats_b, cmp_ab>>
  /\ UNCHANGED <<cvars, avars, gvars, svars>>

NextCompare == CompareAB \/ CompareBA

CompareSpec == InitCompare /\ [][NextCompare]_vars

\* C12: the comparison of (a, b) and the comparison of (b, a) agree on every
\* numeric field: the difference is negated, the leader is the same name in
\* both (the name of the side with the greater value), and a tie in one is a
\* tie in the other
C12_SwapConsistent ==
  (compared = {"ab", "ba"}) =>
    \A f \in FieldSet :
      LET x == cmp_ab.comparison[f]
          y == cmp_ba.comparison[f]
      IN /\ y["difference"] = 0 - x["difference"]
         /\ y["leader"] = x["leader"]
         /\ (x["leader"] = "tied") <=> (x["difference"] = 0)
         /\ (y["leader"] = "tied") <=> (y["difference"] = 0)
         /\ (x["difference"] > 0) => (x["leader"] = stats_a["player_name"])
         /\ (x["difference"] < 0) => (x["leader"] = stats_b["player_name"])

\* both comparisons made of two players with different names, a leading in
\* one field and tied with b in another
C12_Witness ==
  /\ compared = {"ab", "ba"}
  /\ stats_a["player_name"] # stats_b["player_name"]
  /\ cmp_ab.comparison["goals"]["difference"] > 0
  /\ cmp_ba.comparison["goals"]["leader"] = stats_a["player_name"]
  /\ cmp_ab.comparison["games_played"]["leader"] = "tied"

\* C13: for every pair of records, two records with the same player_name
\* included, each numeric field's entry of the comparison holds a's value
\* and b's value, difference = a's value - b's value, and a leader that is
\* the side with the strictly greater value or "tied"
C13_EntryHoldsBothValues ==
  ("ab" \in compared) =>
    \A f \in FieldSet :
      LET e == cmp_ab.comparison[f]
          na == stats_a["player_name"]
          nb == stats_b["player_name"]
      IN /\ na \in DOMAIN e
         /\ nb \in DOMAIN e
         /\ e[na] = stats_a[f]
         /\ e[nb] = stats_b[f]
         /\ e["difference"] = stats_a[f] - stats_b[f]
         /\ e["leader"] = IF stats_a[f] > stats_b[f] THEN na
                          ELSE IF stats_b[f] > stats_a[f] THEN nb
                          ELSE "tied"

(***************************************************************************)
(* get_player_stats (ex02 and ex04), step by step: the call, the return of *)
(* the search request that lookup_player_id sends on a cache miss, and the *)
(* return of the data-service request.                                     *)
(***************************************************************************)
\* what the search service may answer to the resolver: also a first match
\* whose playerId is the empty string
ResolverOutcomes(n) == SearchOutcomes(n) \cup {Match("empty_str", 0)}

\* a check "if player_id is None" in place of "if not player_id"
AfterLookupIsNone(n, player_id) ==
  IF player_id = None
  THEN [pc |-> "raised", fetches |-> 0, result |-> NotFoundMsg(n)]
  ELSE [pc |-> "fetching", fetches |-> 1, result |-> NoMsg]

\* after lookup_player_id returned player_id: "if not player_id: raise
\* ValueError(...)", else requests.get(url, ...) is issued
AfterLookup(n, player_id) ==
  IF ~Truthy(player_id)
  THEN [pc |-> "raised", fetches |-> 0, result |-> NotFoundMsg(n)]
  ELSE [pc |-> "fetching", fetches |-> 1, result |-> NoMsg]

InitStats ==
  /\ AgentIdle
  /\ GenIdle
  /\ StatsIdle
  /\ CompareIdle
  /\ impl \in Impls
  /\ cache = EmptyCache
  /\ spc = [s \in Sessions |-> "idle"]
  /\ sname = [s \in Sessions |-> 0]
  /\ last = NoCall
  /\ resolved = [n \in HotNames |-> NoVal]
  /\ since = [n \in HotNames |-> NoneSince]

\* get_player_stats(n) is called: lookup_player_id answers from the cache,
\* or sends its search request
StatsCall(n) ==
  /\ gpc \in {"idle", "returned", "raised"}
  /\ gname' = n
  /\ IF CacheHas(cache, n)
     THEN LET player_id == CacheGet(cache, n)
              a == AfterLookup(n, player_id)
          IN /\ cache' = CacheTouch(cache, n)
             /\ gid' = player_id
             /\ gpc' = a.pc
             /\ fetches' = a.fetches
             /\ gresult' = a.result
     ELSE /\ gpc' = "searching"
          /\ gid' = NoVal
          /\ fetches' = 0
          /\ gresult' = NoMsg
          /\ UNCHANGED cache
  /\ UNCHANGED <<impl, spc, sname, last, resolved, since>>
  /\ UNCHANGED <<avars, gvars, pvars>>

\* the search request ends as o: lookup_player_id returns (its result is
\* cached) and get_player_stats goes on
SearchReturns(o) ==
  /\ gpc = "searching"
  /\ LET player_id == LookupBody(impl, o)
         a == AfterLookup(gname, player_id)
     IN /\ cache' = CacheStore(cache, gname, player_id)
        /\ gid' = player_id
        /\ gpc' = a.pc
        /\ fetches' = fetches + a.fetches
        /\ gresult' = a.result
  /\ UNCHANGED gname
  /\ UNCHANGED <<impl, spc, sname, last, resolved, since>>
  /\ UNCHANGED <<avars, gvars, pvars>>

\* the data-service request ends as fo: the dict is returned, or the
\* exception is raised again as ValueError
DataReturns(fo) ==
  /\ gpc = "fetching"
  /\ IF fo = "ok"
     THEN /\ gpc' = "returned"
          /\ gresult' = StatsOf(gid.v)
     ELSE /\ gpc' = "raised"
          /\ gresult' = FetchErrorMsg(gid.v, fo)
  /\ UNCHANGED <<gname, gid, fetches>>
  /\ UNCHANGED <<cvars, avars, gvars, pvars>>

NextStats ==
  \/ \E n \in HotNames : StatsCall(n)
  \/ \E o \in ResolverOutcomes(gname) : SearchReturns(o)
  \/ \E fo \in FetchOutcomes : DataReturns(fo)

StatsSpec == InitStats /\ [][NextStats]_vars

\* C14: within one get_player_stats call the data-service request is issued
\* only after the resolver returned a truthy identifier; when the resolver
\* returns None, 0 or "" no data-service request is made and the call fails
\* with "Player '{name}' not found"; at most one data-service request is
\* issued per call
C14_FetchOnlyAfterTruthyId ==
  /\ fetches <= 1
  /\ (fetches = 1) => (gid # NoVal /\ Truthy(gid))
  /\ (gpc = "searching") => (gid = NoVal /\ fetches = 0)
  /\ (gpc \in {"fetching", "returned"}) => (fetches = 1)
  /\ (gid # NoVal /\ ~Truthy(gid)) =>
       (fetches = 0 /\ gpc = "raised" /\ gresult = NotFoundMsg(gname))
  /\ (gpc = "raised" /\ fetches = 1) =>
       (\E fo \in FetchOutcomes \ {"ok"} : gresult = FetchErrorMsg(gid.v, fo))

\* a call for name 1 was resolved and fetched before; the call for name 2
\* got the identifier 0 from the resolver and failed without a request
C14_Witness ==
  /\ CacheHas(cache, 1)
  /\ Truthy(CacheGet(cache, 1))
  /\ gname = 2
  /\ gid = IntVal(0)
  /\ gpc = "raised"
  /\ fetches = 0
  /\ gresult = NotFoundMsg(2)

====
